---- MODULE Spec2Model ----
(***************************************************************************)
(* Model of gloriousEggRoll.go: the installer that resolves the latest     *)
(* GE-Proton release, checks whether it is installed, downloads the        *)
(* release archive, extracts it into the compatibility tools folder and    *)
(* removes the downloaded archive.                                         *)
(*                                                                         *)
(* The filesystem is a function from absolute paths (sequences of path     *)
(* segments, <<>> being "/") to objects.  File names whose suffix matters  *)
(* (asset names) are sequences of one-character strings.  The network is   *)
(* the environment: each HTTP request is answered by a response drawn from *)
(* a small set.  Local filesystem calls succeed or fail as the filesystem  *)
(* state and the permission to reach the install directory dictate.         *)
(***************************************************************************)
EXTENDS Naturals, Sequences, FiniteSets, TLC

VARIABLES
    pc,               \* position of main: start, resolve, decode, check, download,
                      \* extract, untar, cleanup, done, already, failed
    exitCode,         \* "none" while main runs, then the exit status "0" or "1"
    fs,               \* the filesystem: path -> object
    denied,           \* the install directory's parent cannot be searched (EACCES)
    resp,             \* HTTP response body of the latest-release request, in flight
    tagName,          \* main's tagName
    tarGzDownloadURL, \* main's tarGzDownloadURL
    src,              \* content of the temporary archive file written by this run
    archive,          \* what the tar reader has not read yet
    metaReqs,         \* latest-release GET requests issued by this run
    archReqs,         \* archive GET requests issued by this run
    completed,        \* history: tags whose archive an extraction has applied to the end
    last,             \* history: the previous run, when it ended in done
    fs0               \* history: the filesystem when extraction began (SpecExtract)

vars == <<pc, exitCode, fs, denied, resp, tagName, tarGzDownloadURL, src,
          archive, metaReqs, archReqs, completed, last, fs0>>

----------------------------------------------------------------------------
(* Bounds *)

\* longest asset list of a release
MaxAssets == 2
\* longest archive (entries) a run downloads
MaxEntries == 2
\* longest archive (entries) given to the extractor alone
MaxTarEntries == 3

----------------------------------------------------------------------------
(* Paths: path/filepath *)

Front(s) == SubSeq(s, 1, Len(s) - 1)

\* filepath.Clean on a rooted path: ".." drops the segment before it and is
\* dropped itself at the root.
RECURSIVE CleanFrom(_, _)
CleanFrom(acc, rest) ==
    IF rest = <<>> THEN acc
    ELSE IF Head(rest) = ".."
         THEN CleanFrom(IF acc = <<>> THEN <<>> ELSE Front(acc), Tail(rest))
         ELSE CleanFrom(Append(acc, Head(rest)), Tail(rest))

\* A join that drops the parent-directory segments of the joined name.
JoinSanitized(dir, name) == dir \o SelectSeq(name, LAMBDA s : s # "..")

\* filepath.Join(dir, name): concatenate, then Clean.
Join(dir, name) == CleanFrom(<<>>, dir \o name)

\* p lies in dir or below it
IsUnder(p, dir) == Len(p) >= Len(dir) /\ SubSeq(p, 1, Len(dir)) = dir

\* the paths leading to p, p included, "/" excluded
Prefixes(p) == { SubSeq(p, 1, n) : n \in 1..Len(p) }

\* "~/.steam/steam", and main's steamCompatabilityFolderPath below it
SteamDir == <<"steam">>
CompatDir == Join(SteamDir, <<"compatibilitytools.d">>)

----------------------------------------------------------------------------
(* Filesystem: package os *)

DirObj == [kind |-> "dir", data |-> ""]
FileObj(d) == [kind |-> "file", data |-> d]

Exists(f, p) == p \in DOMAIN f
IsDir(f, p) == Exists(f, p) /\ f[p].kind = "dir"
IsFile(f, p) == Exists(f, p) /\ f[p].kind = "file"

\* A test by os.IsExist(err), which no result of os.Stat satisfies.
StatIsExist(f, ok, p) == FALSE

\* os.Stat(p) returns a nil error
StatOk(f, ok, p) == ok /\ Exists(f, p)

\* os.Mkdir(p): the parent must be a directory and p must not exist.
Mkdir(f, p) ==
    IF p = <<>> \/ Exists(f, p) \/ ~IsDir(f, Front(p))
    THEN [fs |-> f, err |-> "mkdir"]
    ELSE [fs |-> (p :> DirObj) @@ f, err |-> "nil"]

\* os.Mkdir in the place of os.MkdirAll: no parents made, an existing
\* directory is an error.
MkdirOnly(f, p) == Mkdir(f, p)

\* os.MkdirAll(p): fails when p or one of its parents is a file, else makes
\* every missing directory of the path; a directory already there is left alone.
MkdirAll(f, p) ==
    IF \E q \in Prefixes(p) : IsFile(f, q)
    THEN [fs |-> f, err |-> "mkdirall"]
    ELSE [fs |-> [q \in DOMAIN f \cup Prefixes(p) |->
                     IF q \in DOMAIN f THEN f[q] ELSE DirObj],
          err |-> "nil"]

\* os.Create(p): the parent must be a directory and p must not be one; the
\* file is created, or truncated when it exists.
Create(f, p) ==
    IF p = <<>> \/ ~IsDir(f, Front(p)) \/ IsDir(f, p)
    THEN [fs |-> f, err |-> "create"]
    ELSE [fs |-> (p :> FileObj("")) @@ f, err |-> "nil"]

\* io.Copy(file, reader): the bytes read are the file's content.
WriteFile(f, p, d) == (p :> FileObj(d)) @@ f

\* os.Remove(p) of a file
Remove(f, p) ==
    IF ~IsFile(f, p)
    THEN [fs |-> f, err |-> "remove"]
    ELSE [fs |-> [q \in DOMAIN f \ {p} |-> f[q]], err |-> "nil"]

----------------------------------------------------------------------------
(* Release Resolver: getLatestReleaseURL *)

\* a file name as the sequence of its characters
PkgTarGz == <<"p", ".", "t", "a", "r", ".", "g", "z">>
NotesGz == <<"n", ".", "g", "z">>
ReadmeTxt == <<"r", ".", "t", "x", "t">>

AssetNames == {PkgTarGz, NotesGz, ReadmeTxt}
URLs == {"", "u1", "u2"}
Tags == {"T1", "T2"}

\* type Asset
Asset == [Name : AssetNames, DownloadURL : URLs]

\* the sequences over S of length at most n
RECURSIVE SeqsUpTo(_, _)
SeqsUpTo(S, n) ==
    IF n = 0 THEN {<<>>}
    ELSE LET shorter == SeqsUpTo(S, n - 1)
         IN  shorter \cup { Append(s, x) : s \in { t \in shorter : Len(t) = n - 1 }, x \in S }

\* type GitHubRelease
GitHubRelease == [TagName : Tags, Assets : SeqsUpTo(Asset, MaxAssets)]

NoRelease == [TagName |-> "", Assets |-> <<>>]
NoResp == [status |-> "none", release |-> NoRelease]

\* What http.Get(apiURL) and the JSON decoder can meet: a transport error, a
\* body that is no JSON, or a release.
Responses ==
    {[status |-> "neterr", release |-> NoRelease],
     [status |-> "badjson", release |-> NoRelease]}
    \cup { [status |-> "ok", release |-> r] : r \in GitHubRelease }

\* filepath.Ext: the suffix from the last dot of the last path element, "" when
\* it has none.
RECURSIVE ExtFrom(_, _)
ExtFrom(name, i) ==
    IF i = 0 \/ name[i] = "/" THEN <<>>
    ELSE IF name[i] = "." THEN SubSeq(name, i, Len(name))
    ELSE ExtFrom(name, i - 1)

Ext(name) == ExtFrom(name, Len(name))

\* the test of the asset loop
IsTarGzAsset(asset) == Ext(asset.Name) = <<".", "g", "z">>

\* the asset loop: the DownloadURL of the first asset that passes the test, ""
\* when none does
RECURSIVE ScanAssets(_)
ScanAssets(assets) ==
    IF assets = <<>> THEN ""
    ELSE IF IsTarGzAsset(Head(assets)) THEN Head(assets).DownloadURL
    ELSE ScanAssets(Tail(assets))

\* getLatestReleaseURL on the response it received
GetLatestReleaseURL(r) ==
    IF r.status # "ok"
    THEN [tag |-> "", url |-> "", err |-> r.status]
    ELSE LET url == ScanAssets(r.release.Assets)
         IN  IF url = ""
             THEN [tag |-> "", url |-> "", err |-> "no .tar.gz file found"]
             ELSE [tag |-> r.release.TagName, url |-> url, err |-> "nil"]

----------------------------------------------------------------------------
(* Archive Extractor: extractTarGzFile *)

DirEntry(n) == [kind |-> "dir", name |-> n, data |-> ""]
RegEntry(n, d) == [kind |-> "reg", name |-> n, data |-> d]
\* a regular file whose payload ends before its declared size
CutEntry(n) == [kind |-> "cut", name |-> n, data |-> ""]
\* an entry of another type, such as a symbolic link
SymEntry(n) == [kind |-> "sym", name |-> n, data |-> ""]
\* a header the tar reader cannot parse
BadEntry == [kind |-> "bad", name |-> <<>>, data |-> ""]

EntrySet(names, payloads) ==
    { DirEntry(n) : n \in names }
    \cup { RegEntry(n, d) : n \in names, d \in payloads }
    \cup { CutEntry(<<"T1">>), SymEntry(<<"T1">>), BadEntry }

\* a downloaded body: gzip-readable or not, and the tar entries inside
TarGz(entries) == [gz |-> TRUE, entries |-> entries]
NotGzip == [gz |-> FALSE, entries |-> <<>>]
NoFile == [gz |-> FALSE, entries |-> <<BadEntry>>]

\* A loop whose switch rejects the entry types it does not handle.
ExtractEntryStrict(f, outputFolderPath, header) ==
    IF header.kind = "bad" THEN [fs |-> f, err |-> "tar"]
    ELSE LET outputPath == Join(outputFolderPath, header.name)
         IN  CASE header.kind = "dir" -> MkdirAll(f, outputPath)
               [] header.kind \in {"reg", "cut"} ->
                    LET c == Create(f, outputPath)
                    IN  IF c.err # "nil" THEN c
                        ELSE IF header.kind = "cut"
                        THEN [fs |-> c.fs, err |-> "copy"]
                        ELSE [fs |-> WriteFile(c.fs, outputPath, header.data),
                              err |-> "nil"]
               [] OTHER -> [fs |-> f, err |-> "unsupported"]

\* one turn of the extraction loop on the header the reader returned
ExtractEntry(f, outputFolderPath, header) ==
    IF header.kind = "bad" THEN [fs |-> f, err |-> "tar"]
    ELSE LET outputPath == Join(outputFolderPath, header.name)
         IN  CASE header.kind = "dir" -> MkdirAll(f, outputPath)
               [] header.kind \in {"reg", "cut"} ->
                    LET c == Create(f, outputPath)
                    IN  IF c.err # "nil" THEN c
                        ELSE IF header.kind = "cut"
                        THEN [fs |-> c.fs, err |-> "copy"]
                        ELSE [fs |-> WriteFile(c.fs, outputPath, header.data),
                              err |-> "nil"]
               [] OTHER -> [fs |-> f, err |-> "nil"]

----------------------------------------------------------------------------
(* Sync Orchestrator: main *)

\* newGEFileNameTarGz: "GE-Proton-<tag>.tar.gz"
TarGzFileName(tag) ==
    CASE tag = "T1" -> "GE-Proton-T1.tar.gz"
      [] tag = "T2" -> "GE-Proton-T2.tar.gz"
      [] OTHER -> "GE-Proton-.tar.gz"

\* A marker looked for beside the compatibility tools folder, not in it.
MarkerPathInSteamDir(tag) == Join(SteamDir, <<tag>>)

\* GEFilePathWithLatestTagName
MarkerPath(tag) == Join(CompatDir, <<tag>>)

\* A temporary archive named by the bare tag.
TarGzPathIsTag(tag) == Join(CompatDir, <<tag>>)

\* newGEFTarGzFolderPath
TarGzPath(tag) == Join(CompatDir, <<TarGzFileName(tag)>>)

\* what the temporary archive holds once the body is copied into it
TarGzBytes == "tgz"

RootFS == (<<>> :> DirObj)
SteamFS == (SteamDir :> DirObj) @@ RootFS
CompatFS == (CompatDir :> DirObj) @@ SteamFS

\* the names of the entries of the archives a run downloads
RunNames == {<<"T1">>, <<"T2">>}
RunArchives ==
    {NotGzip} \cup { TarGz(s) : s \in SeqsUpTo(EntrySet(RunNames, {"ok"}), MaxEntries) }

\* What http.Get(url) and the copy of the body can meet: a transport error, a
\* body that breaks off, or a whole body.
Downloads ==
    {[status |-> "neterr", body |-> NotGzip], [status |-> "copyerr", body |-> NotGzip]}
    \cup { [status |-> "ok", body |-> a] : a \in RunArchives }

NoRun == [tag |-> "", made |-> FALSE]

\* history: whether an archive has a directory or regular-file entry whose
\* destination is the marker path of tag or lies below it
MakesMarker(entries, tag) ==
    \E i \in 1..Len(entries) :
        /\ entries[i].kind \in {"dir", "reg"}
        /\ IsUnder(Join(CompatDir, entries[i].name), Join(CompatDir, <<tag>>))

Init ==
    /\ pc = "start"
    /\ exitCode = "none"
    /\ denied \in BOOLEAN
    /\ fs \in {RootFS, SteamFS, CompatFS}
    /\ resp = NoResp
    /\ tagName = ""
    /\ tarGzDownloadURL = ""
    /\ src = NoFile
    /\ archive = <<>>
    /\ metaReqs = 0
    /\ archReqs = 0
    /\ completed = {}
    /\ last = NoRun
    /\ fs0 = RootFS

\* os.Exit(1) after the error message
Fail ==
    /\ pc' = "failed"
    /\ exitCode' = "1"

\* main, lines 35-53: the home directory, then the compatibility tools folder
EnsureFolder ==
    /\ pc = "start"
    /\ \E home \in BOOLEAN :
         IF ~home
         THEN Fail /\ UNCHANGED fs
         ELSE IF denied \/ Exists(fs, CompatDir)
         THEN pc' = "resolve" /\ UNCHANGED <<exitCode, fs>>
         ELSE LET m == Mkdir(fs, CompatDir)
              IN  IF m.err # "nil"
                  THEN Fail /\ UNCHANGED fs
                  ELSE pc' = "resolve" /\ fs' = m.fs /\ UNCHANGED exitCode
    /\ UNCHANGED <<denied, resp, tagName, tarGzDownloadURL, src, archive,
                   metaReqs, archReqs, completed, last, fs0>>

\* A resolver that asks twice, once for the tag and once for the URL.
RequestLatestTwice ==
    /\ pc = "resolve"
    /\ metaReqs' = metaReqs + 2
    /\ \E r \in Responses :
         IF r.status = "neterr"
         THEN Fail /\ UNCHANGED resp
         ELSE pc' = "decode" /\ resp' = r /\ UNCHANGED exitCode
    /\ UNCHANGED <<fs, denied, tagName, tarGzDownloadURL, src, archive,
                   archReqs, completed, last, fs0>>

\* getLatestReleaseURL, lines 105-111: the GET request and its answer
RequestLatest ==
    /\ pc = "resolve"
    /\ metaReqs' = metaReqs + 1
    /\ \E r \in Responses :
         IF r.status = "neterr"
         THEN Fail /\ UNCHANGED resp
         ELSE pc' = "decode" /\ resp' = r /\ UNCHANGED exitCode
    /\ UNCHANGED <<fs, denied, tagName, tarGzDownloadURL, src, archive,
                   archReqs, completed, last, fs0>>

\* getLatestReleaseURL, lines 112-136, and main, lines 56-60
DecodeLatest ==
    /\ pc = "decode"
    /\ resp' = NoResp
    /\ LET res == GetLatestReleaseURL(resp)
       IN  IF res.err # "nil"
           THEN Fail /\ UNCHANGED <<tagName, tarGzDownloadURL>>
           ELSE /\ pc' = "check"
                /\ tagName' = res.tag
                /\ tarGzDownloadURL' = res.url
                /\ UNCHANGED exitCode
    /\ UNCHANGED <<fs, denied, src, archive, metaReqs, archReqs, completed,
                   last, fs0>>

\* main, lines 62-67: the installed check
CheckInstalled ==
    /\ pc = "check"
    /\ IF StatOk(fs, ~denied, MarkerPath(tagName))
       THEN pc' = "already" /\ exitCode' = "0"
       ELSE pc' = "download" /\ UNCHANGED exitCode
    /\ UNCHANGED <<fs, denied, resp, tagName, tarGzDownloadURL, src, archive,
                   metaReqs, archReqs, completed, last, fs0>>

\* downloadLatestRelease on the answer d of the GET request
DownloadLatestRelease(f, ok, outputPath, d) ==
    IF d.status = "neterr" THEN [fs |-> f, err |-> "get"]
    ELSE LET c == IF ok THEN Create(f, outputPath) ELSE [fs |-> f, err |-> "create"]
         IN  IF c.err # "nil" THEN c
             ELSE IF d.status = "copyerr" THEN [fs |-> c.fs, err |-> "copy"]
             ELSE [fs |-> WriteFile(c.fs, outputPath, TarGzBytes), err |-> "nil"]

\* main, lines 70-80
Download ==
    /\ pc = "download"
    /\ archReqs' = archReqs + 1
    /\ \E d \in Downloads :
         LET r == DownloadLatestRelease(fs, ~denied, TarGzPath(tagName), d)
         IN  /\ fs' = r.fs
             /\ IF r.err # "nil"
                THEN Fail /\ UNCHANGED src
                ELSE pc' = "extract" /\ src' = d.body /\ UNCHANGED exitCode
    /\ UNCHANGED <<denied, resp, tagName, tarGzDownloadURL, archive, metaReqs,
                   completed, last, fs0>>

\* extractTarGzFile, lines 164-179: open the file, read the gzip header
ExtractOpen ==
    /\ pc = "extract"
    /\ IF ~IsFile(fs, TarGzPath(tagName)) \/ ~src.gz
       THEN Fail /\ UNCHANGED archive
       ELSE pc' = "untar" /\ archive' = src.entries /\ UNCHANGED exitCode
    /\ UNCHANGED <<fs, denied, resp, tagName, tarGzDownloadURL, src, metaReqs,
                   archReqs, completed, last, fs0>>

\* extractTarGzFile, lines 182-218: one turn of the loop, or its end
ExtractNext ==
    /\ pc = "untar"
    /\ IF archive = <<>>
       THEN /\ pc' = "cleanup"
            /\ completed' = completed \cup {tagName}
            /\ UNCHANGED <<exitCode, fs, archive>>
       ELSE LET r == ExtractEntry(fs, CompatDir, Head(archive))
            IN  /\ fs' = r.fs
                /\ UNCHANGED completed
                /\ IF r.err # "nil"
                   THEN Fail /\ UNCHANGED archive
                   ELSE archive' = Tail(archive) /\ UNCHANGED <<pc, exitCode>>
    /\ UNCHANGED <<denied, resp, tagName, tarGzDownloadURL, src, metaReqs,
                   archReqs, last, fs0>>

\* main, lines 92-101: remove the downloaded archive
Cleanup ==
    /\ pc = "cleanup"
    /\ LET r == Remove(fs, TarGzPath(tagName))
       IN  /\ fs' = r.fs
           /\ IF r.err # "nil" THEN Fail ELSE pc' = "done" /\ exitCode' = "0"
    /\ UNCHANGED <<denied, resp, tagName, tarGzDownloadURL, src, archive,
                   metaReqs, archReqs, completed, last, fs0>>

\* the program is started again on the filesystem the last run left
NextRun ==
    /\ pc \in {"done", "already", "failed"}
    /\ pc' = "start"
    /\ exitCode' = "none"
    /\ resp' = NoResp
    /\ tagName' = ""
    /\ tarGzDownloadURL' = ""
    /\ src' = NoFile
    /\ archive' = <<>>
    /\ metaReqs' = 0
    /\ archReqs' = 0
    /\ last' = IF pc = "done"
               THEN [tag |-> tagName, made |-> MakesMarker(src.entries, tagName)]
               ELSE NoRun
    /\ UNCHANGED <<fs, denied, completed, fs0>>

Next ==
    \/ EnsureFolder
    \/ RequestLatest
    \/ DecodeLatest
    \/ CheckInstalled
    \/ Download
    \/ ExtractOpen
    \/ ExtractNext
    \/ Cleanup
    \/ NextRun

Spec == Init /\ [][Next]_vars

----------------------------------------------------------------------------
(* The extractor alone: extractTarGzFile on every archive of TarArchives,   *)
(* over destination directories that already hold something.                *)

TarNames == {<<"T1">>, <<"T1", "f">>, <<"..", "e">>}
TarArchives ==
    {NotGzip}
    \cup { TarGz(s) : s \in SeqsUpTo(EntrySet(TarNames, {"ok", "v2"}), MaxTarEntries) }

\* the destination directory with the downloaded archive in it
TarFS == (TarGzPath("T1") :> FileObj(TarGzBytes)) @@ CompatFS
ExtractFS ==
    {TarFS,
     (<<"steam", "compatibilitytools.d", "T1">> :> DirObj) @@ TarFS,
     (<<"steam", "compatibilitytools.d", "T1">> :> FileObj("old")) @@ TarFS,
     (<<"steam", "compatibilitytools.d", "T1", "f">> :> FileObj("old"))
        @@ (<<"steam", "compatibilitytools.d", "T1">> :> DirObj) @@ TarFS}

InitExtract ==
    /\ pc = "extract"
    /\ exitCode = "none"
    /\ fs \in ExtractFS
    /\ fs0 = fs
    /\ denied = FALSE
    /\ resp = NoResp
    /\ tagName = "T1"
    /\ tarGzDownloadURL = "u1"
    /\ src \in TarArchives
    /\ archive = <<>>
    /\ metaReqs = 1
    /\ archReqs = 1
    /\ completed = {}
    /\ last = NoRun

NextExtract ==
    \/ ExtractOpen
    \/ ExtractNext

SpecExtract == InitExtract /\ [][NextExtract]_vars

----------------------------------------------------------------------------
(* Claims *)

\* the marker path of main's tagName is there and os.Stat can see it
MarkerPresent == ~denied /\ Exists(fs, CompatDir \o <<tagName>>)

\* C1: whenever the installed check finds the marker path, the step ends the
\* run in done-already-present with status zero, having issued no archive
\* request and changed nothing in the filesystem (no temporary archive, no
\* extracted file or directory); and from done-already-present the run does
\* nothing more: the only step left is the next start of the program.
C1_MarkerSkipsDownload ==
    [][ /\ (pc = "check" /\ MarkerPresent) =>
              (pc' = "already" /\ exitCode' = "0" /\ fs' = fs /\ archReqs' = 0)
        /\ pc = "already" => (pc' = "start" /\ fs' = fs) ]_vars

C1_Witness ==
    /\ pc = "already"
    /\ MarkerPresent
    /\ archReqs = 0
    /\ ~Exists(fs, CompatDir \o <<TarGzFileName(tagName)>>)

\* C2 as stated: a run that ends in done-already-present has issued no HTTP
\* request at all, neither for the release metadata nor for the archive.
C2_NoNetworkAtAll ==
    pc = "already" => (metaReqs = 0 /\ archReqs = 0)

\* C2 amended: a run that ends in done-already-present has status zero and has
\* issued exactly one HTTP request, the latest-release metadata request made
\* before the installed check, and no archive request.
C2_OnlyMetadataRequest ==
    pc = "already" => (exitCode = "0" /\ MarkerPresent /\ metaReqs = 1 /\ archReqs = 0)

C2_Witness ==
    pc = "already" /\ metaReqs = 1 /\ archReqs = 0 /\ exitCode = "0"

\* this run resolved the tag of the run before it, which ended in done, and
\* is past its installed check
SecondRunPastCheck ==
    /\ last.tag # ""
    /\ last.tag = tagName
    /\ pc \in {"download", "extract", "untar", "cleanup", "done", "already", "failed"}

\* C3 as stated: after a run that ended in done, the next run with the same
\* tag ends in done-already-present without downloading, whatever the archive
\* held.
C3_IdempotentForEveryArchive ==
    SecondRunPastCheck => (pc = "already" /\ archReqs = 0)

\* C3 amended: after a run that ended in done, the next run with the same tag
\* ends in done-already-present without downloading or extracting exactly when
\* the archive of the first run held a directory or regular-file entry whose
\* destination is the marker path or lies below it; after any other archive the
\* second run does not find the marker and downloads again.
C3_IdempotentWhenArchiveMakesMarker ==
    SecondRunPastCheck =>
        /\ last.made => (pc = "already" /\ archReqs = 0 /\ exitCode = "0")
        /\ ~last.made => (pc # "already" /\ (pc # "download" => archReqs = 1))

C3_Witness ==
    SecondRunPastCheck /\ last.made /\ pc = "already" /\ archReqs = 0

\* the name ends in ".tar.gz"
HasTarGzSuffix(name) ==
    /\ Len(name) >= 7
    /\ SubSeq(name, Len(name) - 6, Len(name)) = <<".", "t", "a", "r", ".", "g", "z">>

TarGzAssets(assets) == { i \in 1..Len(assets) : HasTarGzSuffix(assets[i].Name) }

\* the first asset of the list whose name ends in ".tar.gz"
FirstTarGz(assets) ==
    assets[CHOOSE i \in TarGzAssets(assets) : \A j \in TarGzAssets(assets) : i <= j]

\* C4: whenever the release that was received lists an asset whose name ends
\* in ".tar.gz", resolution succeeds and returns the download URL of the first
\* such asset, whatever else is listed.  (Stated for releases whose assets all
\* carry a download URL, the only ones a release host serves.)
C4_SelectsFirstTarGz ==
    [][ (/\ pc = "decode"
         /\ resp.status = "ok"
         /\ \A i \in 1..Len(resp.release.Assets) : resp.release.Assets[i].DownloadURL # ""
         /\ TarGzAssets(resp.release.Assets) # {})
        => (/\ pc' = "check"
            /\ tagName' = resp.release.TagName
            /\ tarGzDownloadURL' = FirstTarGz(resp.release.Assets).DownloadURL) ]_vars

\* C5: whenever the release that was received lists no asset whose name ends
\* in ".tar.gz", resolution fails, and the run ends in failed with no archive
\* request issued.
C5_NoTarGzFails ==
    [][ (/\ pc = "decode"
         /\ resp.status = "ok"
         /\ TarGzAssets(resp.release.Assets) = {})
        => (pc' = "failed" /\ exitCode' = "1" /\ archReqs' = 0) ]_vars

\* the compatibility tools folder cannot be reached, or is missing and cannot
\* be created
FolderFailure ==
    \/ denied
    \/ ~Exists(fs, CompatDir) /\ ~IsDir(fs, SteamDir)

\* C6: a step that meets a fatal failure (the folder unreachable or
\* uncreatable, a resolution failure) ends the run in failed at once; failed
\* carries a non-zero status and is followed by no later step of the pipeline
\* (the filesystem and the request counts stay as they are until the program
\* is started again); done and done-already-present carry status zero.
C6_FailFast ==
    [][ /\ (pc = "start" /\ FolderFailure) => (pc' = "failed" /\ metaReqs' = 0)
        /\ (pc = "decode" /\ resp.status # "ok") => pc' = "failed"
        /\ pc' = "failed" => exitCode' = "1"
        /\ pc' \in {"done", "already"} => exitCode' = "0"
        /\ pc = "failed" => (pc' = "start" /\ fs' = fs) ]_vars

\* C10 as stated: when a run has ended, the marker path of a tag exists only if
\* an extraction of that tag's archive has run to its end.
C10_MarkerOnlyAfterFullExtraction ==
    pc \in {"done", "already", "failed"} =>
        \A t \in Tags : Exists(fs, CompatDir \o <<t>>) => t \in completed

\* C10 amended: starting without markers, the marker path of a tag comes into
\* existence only in a turn of the extraction loop (so after a download that
\* succeeded) that applies a directory or regular-file entry whose destination
\* is the marker path or lies below it; no other step, and no failed download,
\* creates it.  The extraction need not reach its end: nothing is rolled back
\* when a later entry fails, and the entry may belong to another tag's archive.
C10_MarkerOnlyFromExtractedEntry ==
    [][ \A t \in Tags :
          (~Exists(fs, CompatDir \o <<t>>) /\ Exists(fs', CompatDir \o <<t>>))
          => (/\ pc = "untar"
              /\ archive # <<>>
              /\ Head(archive).kind \in {"dir", "reg", "cut"}
              /\ IsUnder(CompatDir \o Head(archive).name, CompatDir \o <<t>>)) ]_vars

\* an extraction that failed has left the marker of the run's tag behind
C10_Witness ==
    /\ pc = "failed"
    /\ archReqs = 1
    /\ src.gz
    /\ tagName \notin completed
    /\ Exists(fs, CompatDir \o <<tagName>>)

\* where the claims place an entry: the destination directory, one level up
\* for each leading parent-directory segment of the stored path, then the rest
RECURSIVE Placed(_, _)
Placed(dir, name) ==
    IF name # <<>> /\ Head(name) = ".."
    THEN Placed(IF dir = <<>> THEN <<>> ELSE Front(dir), Tail(name))
    ELSE dir \o name

Target(e) == Placed(CompatDir, e.name)

\* the archive is gzip-readable and holds only whole directory and
\* regular-file entries
OnlyDirsAndFiles(a) ==
    a.gz /\ \A i \in 1..Len(a.entries) : a.entries[i].kind \in {"dir", "reg"}

\* every directory of the archive exists, and every regular file exists and
\* holds the payload of the last entry stored for its path
Reproduced(entries, f) ==
    \A i \in 1..Len(entries) :
        LET e == entries[i]
            same == { j \in 1..Len(entries) :
                        entries[j].kind = "reg" /\ Target(entries[j]) = Target(e) }
        IN  /\ e.kind = "dir" => IsDir(f, Target(e))
            /\ e.kind = "reg" =>
                  /\ IsFile(f, Target(e))
                  /\ f[Target(e)].data =
                        entries[CHOOSE j \in same : \A k \in same : k <= j].data

\* directories and files the entries before the i-th make, when they succeed
DirsBefore(entries, i) ==
    UNION { Prefixes(Target(entries[j])) : j \in { k \in 1..(i - 1) : entries[k].kind = "dir" } }
FilesBefore(entries, i) ==
    { Target(entries[j]) : j \in { k \in 1..(i - 1) : entries[k].kind = "reg" } }

\* Stream order fits the filesystem: when a directory entry is applied neither
\* its path nor a parent of it is a file, and when a regular-file entry is
\* applied its parent is a directory and its own path is not one.
Fits(f, entries) ==
    \A i \in 1..Len(entries) :
        LET e == entries[i]
            p == Target(e)
            isFile(q) == IsFile(f, q) \/ q \in FilesBefore(entries, i)
            isDir(q) == q = <<>> \/ IsDir(f, q) \/ q \in DirsBefore(entries, i)
        IN  /\ e.kind = "dir" => \A q \in Prefixes(p) : ~isFile(q)
            /\ e.kind = "reg" => p # <<>> /\ isDir(Front(p)) /\ ~isDir(p)

\* the entries form a nested directory structure: the directory a regular file
\* lies in is the destination directory, a directory above it, or a directory
\* the archive stores
FormsTree(entries) ==
    \A i \in 1..Len(entries) :
        entries[i].kind = "reg" =>
            \/ IsUnder(CompatDir, Front(Target(entries[i])))
            \/ Front(Target(entries[i])) \in DirsBefore(entries, Len(entries) + 1)

ExtractionEnded == pc \in {"cleanup", "failed"}

\* C7 as stated: extraction of every archive made only of directory and
\* regular-file entries that form a nested directory structure, applied in
\* stream order, returns success and reproduces every directory and every file
\* with its payload.
C7_EveryArchiveReproduced ==
    (ExtractionEnded /\ OnlyDirsAndFiles(src) /\ FormsTree(src.entries)) =>
        (pc = "cleanup" /\ Reproduced(src.entries, fs))

\* C7 amended: for an archive made only of directory and regular-file entries,
\* extraction returns success whenever stream order fits the filesystem (each
\* regular file's parent directory exists when the file is applied, in the
\* destination already or made by an earlier directory entry, and no path is
\* used as a file where a directory is needed or the reverse); and whenever
\* extraction returns success, every directory of the archive exists and
\* every regular file exists at the destination joined with its path, holding
\* the payload of the last entry for that path.  Otherwise (a file before its
\* directory, a path taken by an object of the other type) extraction fails.
C7_FittingArchiveReproduced ==
    (ExtractionEnded /\ OnlyDirsAndFiles(src)) =>
        /\ Fits(fs0, src.entries) <=> pc = "cleanup"
        /\ pc = "cleanup" => Reproduced(src.entries, fs)

\* a nested structure was reproduced: a directory made by the archive, and a
\* file in it that was stored twice and holds the second payload
C7_Witness ==
    /\ pc = "cleanup"
    /\ OnlyDirsAndFiles(src)
    /\ ~Exists(fs0, CompatDir \o <<"T1">>)
    /\ src.entries = <<DirEntry(<<"T1">>), RegEntry(<<"T1", "f">>, "ok"),
                        RegEntry(<<"T1", "f">>, "v2")>>
    /\ IsDir(fs, CompatDir \o <<"T1">>)
    /\ fs[CompatDir \o <<"T1", "f">>] = FileObj("v2")

\* C8: a turn of the extraction loop on an entry that is neither a directory
\* nor a regular file changes nothing in the filesystem, returns no error and
\* leaves the loop running on the entries that follow.
C8_OtherEntrySkipped ==
    [][ (/\ pc = "untar"
         /\ archive # <<>>
         /\ Head(archive).kind = "sym")
        => (/\ fs' = fs
            /\ pc' = "untar"
            /\ exitCode' = "none"
            /\ archive' = Tail(archive)) ]_vars

\* a symbolic link came first, and the directory after it was still made
C8_Witness ==
    /\ pc = "cleanup"
    /\ Len(src.entries) >= 2
    /\ src.entries[1].kind = "sym"
    /\ src.entries[2] = DirEntry(<<"T1", "f">>)
    /\ ~Exists(fs0, CompatDir \o <<"T1">>)
    /\ IsDir(fs, CompatDir \o <<"T1", "f">>)
    /\ \A p \in DOMAIN fs : Exists(fs0, p) \/ p \in Prefixes(CompatDir \o <<"T1", "f">>)

\* the stored path leads out of the destination directory
Escapes(name) == ~IsUnder(Placed(CompatDir, name), CompatDir)

\* C9: a directory or regular-file entry whose stored path leads out of the
\* destination directory is not rejected: when nothing of the other type is in
\* the way, the turn of the loop that applies it returns no error and the
\* directory, or the file with its payload, exists afterwards at the joined
\* path outside the destination directory.
C9_EscapingEntryWritten ==
    [][ (/\ pc = "untar"
         /\ archive # <<>>
         /\ Head(archive).kind \in {"dir", "reg"}
         /\ Escapes(Head(archive).name)
         /\ Head(archive).kind = "dir" =>
               \A q \in Prefixes(Target(Head(archive))) : ~IsFile(fs, q)
         /\ Head(archive).kind = "reg" =>
               IsDir(fs, Front(Target(Head(archive)))) /\ ~IsDir(fs, Target(Head(archive))))
        => (/\ pc' = "untar"
            /\ archive' = Tail(archive)
            /\ Exists(fs', Target(Head(archive)))
            /\ fs'[Target(Head(archive))] =
                  IF Head(archive).kind = "dir" THEN DirObj
                  ELSE FileObj(Head(archive).data)) ]_vars

\* a file stored as "../e" now lies beside the compatibility tools folder
C9_Witness ==
    /\ pc = "cleanup"
    /\ ~Exists(fs0, <<"steam", "e">>)
    /\ IsFile(fs, <<"steam", "e">>)
    /\ fs[<<"steam", "e">>].data = "ok"
    /\ \E i \in 1..Len(src.entries) : src.entries[i] = RegEntry(<<"..", "e">>, "ok")

====
